---- MODULE Spec2Model ----
(***************************************************************************)
(* cgraph2dot: the DOT call-graph tools.                                   *)
(*                                                                         *)
(*   dot2interactive.py  parse_dot_file: the visualizer's extraction of    *)
(*                       nodes and edges from the text of a .dot file,     *)
(*                       and the event handlers of the page it generates.  *)
(*   tests/dotdiff.py    parse_dot_file, compare_dot_files, main: the      *)
(*                       structural comparator of two .dot files.          *)
(*                                                                         *)
(* Text is modelled as text: a file's content is a string, and the two     *)
(* regular expressions of the extractors are matched character by          *)
(* character, as re.finditer does (leftmost, non-overlapping matches).     *)
(***************************************************************************)
EXTENDS Integers, Sequences, FiniteSets, TLC

VARIABLES
    tool,         \* which program runs: "dot2interactive" or "dotdiff"
    pc,           \* position of the running program
    file,         \* dot2interactive: the input file, as its lines
    content,      \* dot2interactive: f.read() of the input file
    pos,          \* dot2interactive: where re.finditer resumes in content
    nodes,        \* dot2interactive: list of node dicts
    edges,        \* dot2interactive: list of edge dicts
    node_set,     \* dot2interactive: ids already inserted
    calls_map,    \* dot2interactive: id -> set of callees
    prev,         \* dot2interactive: the graph extracted by the previous run
    argv,         \* dotdiff: the command-line arguments after argv[0]
    reference,    \* dotdiff: what the first path names in the file system
    generated,    \* dotdiff: what the second path names in the file system
    opened,       \* dotdiff: the files parse_dot_file has opened
    graph1,       \* dotdiff: parse_dot_file(file1)
    graph2,       \* dotdiff: parse_dot_file(file2)
    differences,  \* dotdiff: the list of report lines
    is_equal,     \* dotdiff: the verdict
    stdout,       \* dotdiff: what main printed
    exit_code,    \* dotdiff: the status main exited with, or NoExit
    nodesDS,      \* page: the vis.DataSet of nodes, id -> item
    allEdges,     \* page: the edge list embedded in the page
    collapsedNodes, \* page: the collapse-state object, own properties only
    searchInput,  \* page: value of the search box
    filterSelect, \* page: value of the filter select
    event,        \* page: the event handled last
    isCollapsed,  \* page: whether the control panel is collapsed
    collapseTimeout, \* page: seconds since the pending timer was set, or NoTimer
    idle          \* page: seconds since the last interaction with the panel

vars == <<tool, pc, file, content, pos, nodes, edges, node_set, calls_map, prev,
          argv, reference, generated, opened, graph1, graph2, differences,
          is_equal, stdout, exit_code,
          nodesDS, allEdges, collapsedNodes, searchInput, filterSelect, event,
          isCollapsed, collapseTimeout, idle>>

vizVars == <<file, content, pos, nodes, edges, node_set, calls_map, prev>>
cmpVars == <<argv, reference, generated, opened, graph1, graph2, differences,
             is_equal, stdout, exit_code>>
graphVars == <<nodesDS, allEdges, collapsedNodes, searchInput, filterSelect, event>>
panelVars == <<isCollapsed, collapseTimeout, idle>>
pageVars == <<graphVars, panelVars>>

(***************************************************************************)
(* Bounds of the explored inputs.                                          *)
(***************************************************************************)
MaxLines == 3
MaxCmpLines == 2
MaxClassLines == 2
MaxRenderEdges == 2

(***************************************************************************)
(* Strings.                                                                *)
(***************************************************************************)
Quote == "\""

Char(s, i) == SubSeq(s, i, i)

\* Python's \s on str, restricted to the ASCII whitespace characters.
IsSpace(c) == c \in {" ", "\t", "\n", "\r", "\f"}

\* str.startswith
StartsWith(s, prefix) ==
    /\ Len(s) >= Len(prefix)
    /\ SubSeq(s, 1, Len(prefix)) = prefix

\* The literal text lit stands in s at position i.
Literal(s, i, lit) ==
    /\ i + Len(lit) - 1 <= Len(s)
    /\ SubSeq(s, i, i + Len(lit) - 1) = lit

\* Position of the first double quote of s at or after i; 0 when there is none.
RECURSIVE FindQuote(_, _)
FindQuote(s, i) ==
    IF i > Len(s) THEN 0
    ELSE IF Char(s, i) = Quote THEN i
    ELSE FindQuote(s, i + 1)

\* \s* from position i: the first position that holds no whitespace.
RECURSIVE SkipSpace(_, _)
SkipSpace(s, i) ==
    IF i <= Len(s) /\ IsSpace(Char(s, i)) THEN SkipSpace(s, i + 1) ELSE i

NoMatch == [ok |-> FALSE]

\* "([^"]+)" at position i: a quote, one or more characters that are not a
\* quote, a quote.  next is the position after the closing quote.
QuotedAt(s, i) ==
    IF i <= Len(s) /\ Char(s, i) = Quote
    THEN LET j == FindQuote(s, i + 1)
         IN  IF j > i + 1
             THEN [ok |-> TRUE, text |-> SubSeq(s, i + 1, j - 1), next |-> j + 1]
             ELSE NoMatch
    ELSE NoMatch

\* node_pattern = "([^"]+)"\s*\[label="([^"]+)"\] matched at position i.
NodePatternAt(s, i) ==
    LET q1 == QuotedAt(s, i)
    IN  IF ~q1.ok THEN NoMatch
        ELSE LET k == SkipSpace(s, q1.next)
             IN  IF ~Literal(s, k, "[label=") THEN NoMatch
                 ELSE LET q2 == QuotedAt(s, k + 7)
                      IN  IF q2.ok /\ Literal(s, q2.next, "]")
                          THEN [ok |-> TRUE, g1 |-> q1.text, g2 |-> q2.text,
                                next |-> q2.next + 1]
                          ELSE NoMatch

\* edge_pattern = "([^"]+)"\s*->\s*"([^"]+)" matched at position i.
EdgePatternAt(s, i) ==
    LET q1 == QuotedAt(s, i)
    IN  IF ~q1.ok THEN NoMatch
        ELSE LET k == SkipSpace(s, q1.next)
             IN  IF ~Literal(s, k, "->") THEN NoMatch
                 ELSE LET q2 == QuotedAt(s, SkipSpace(s, k + 2))
                      IN  IF q2.ok
                          THEN [ok |-> TRUE, g1 |-> q1.text, g2 |-> q2.text,
                                next |-> q2.next]
                          ELSE NoMatch

\* The next match re.finditer yields when it resumes at position i: the
\* leftmost position at or after i where the pattern matches.  Both patterns
\* start with a quote, so only quotes are tried.
RECURSIVE NextNodeMatch(_, _)
NextNodeMatch(s, i) ==
    LET q == FindQuote(s, i)
    IN  IF q = 0 THEN NoMatch
        ELSE LET m == NodePatternAt(s, q)
             IN  IF m.ok THEN m ELSE NextNodeMatch(s, q + 1)

RECURSIVE NextEdgeMatch(_, _)
NextEdgeMatch(s, i) ==
    LET q == FindQuote(s, i)
    IN  IF q = 0 THEN NoMatch
        ELSE LET m == EdgePatternAt(s, q)
             IN  IF m.ok THEN m ELSE NextEdgeMatch(s, q + 1)

(***************************************************************************)
(* Input files.  A file is a sequence of lines; each line is a node        *)
(* declaration, an edge declaration, or other text.                        *)
(***************************************************************************)
NodeLine(id, label) == [kind |-> "node", id |-> id, label |-> label]
EdgeLine(from, to) == [kind |-> "edge", from |-> from, to |-> to]
OtherLine == [kind |-> "other"]

\* The text of one line.
LineText(l) ==
    CASE l.kind = "node" ->
           Quote \o l.id \o Quote \o " [label=" \o Quote \o l.label \o Quote \o "];\n"
      [] l.kind = "edge" ->
           Quote \o l.from \o Quote \o " -> " \o Quote \o l.to \o Quote \o ";\n"
      [] OTHER -> "digraph G {\n"

RECURSIVE FileText(_)
FileText(f) == IF f = <<>> THEN "" ELSE LineText(Head(f)) \o FileText(Tail(f))

SeqsUpTo(S, n) == UNION {[1..k -> S] : k \in 0..n}

VizIds == {"a", "b"}
VizLabels == {"x", "y"}
VizLines ==
    {NodeLine(i, l) : i \in VizIds, l \in VizLabels}
    \cup {EdgeLine(i, j) : i \in VizIds, j \in VizIds}
    \cup {OtherLine}
VizFiles == SeqsUpTo(VizLines, MaxLines)

\* A path of the file system: a regular file with its lines, or nothing.
RegularFile(lines) == [exists |-> TRUE, lines |-> lines]
NoFile == [exists |-> FALSE, lines |-> <<>>]

\* Values of variables that are not assigned yet.
NoGraph == [nodes |-> {}, edges |-> {}]
NoRun == [ran |-> FALSE, graph |-> NoGraph]
NoExit == -1
NoEvent == [type |-> "none", arg |-> ""]
NoTimer == -1

(***************************************************************************)
(* dot2interactive.py: parse_dot_file.                                     *)
(***************************************************************************)
DOT2INTERACTIVE == "dot2interactive"
DOTDIFF == "dotdiff"

\* Group with '_gfortran_' looked up among the exact names instead of being
\* tested as a prefix.
GroupGfortranExact(node_id) ==
    IF StartsWith(node_id, "__mod_") THEN 1
    ELSE IF node_id \in {"_gfortran_", "malloc", "free", "memset", "memmove", "realloc"}
         THEN 2
    ELSE IF node_id \in {"main", "MAIN__", "sqrt", "lround", "copysign"} THEN 3
    ELSE 4

\* The category of a node id, by the first rule that matches.
Group(node_id) ==
    IF StartsWith(node_id, "__mod_") THEN 1
    ELSE IF \/ StartsWith(node_id, "_gfortran_")
            \/ node_id \in {"malloc", "free", "memset", "memmove", "realloc"}
         THEN 2
    ELSE IF node_id \in {"main", "MAIN__", "sqrt", "lround", "copysign"} THEN 3
    ELSE 4

NodeDict(node_id, node_label) ==
    [id |-> node_id, label |-> node_label, group |-> Group(node_id),
     title |-> node_label \o "\nDouble-click to collapse/expand children"]

EdgeDict(source, target) == [from |-> source, to |-> target, arrows |-> "to"]

cmpIdle ==
    /\ argv = <<>> /\ reference = NoFile /\ generated = NoFile
    /\ opened = {} /\ graph1 = NoGraph /\ graph2 = NoGraph
    /\ differences = <<>> /\ is_equal = FALSE
    /\ stdout = <<>> /\ exit_code = NoExit

pageIdle ==
    /\ nodesDS = <<>> /\ allEdges = <<>> /\ collapsedNodes = <<>>
    /\ searchInput = "" /\ filterSelect = "all" /\ event = NoEvent
    /\ isCollapsed = FALSE /\ collapseTimeout = NoTimer /\ idle = 0

vizIdle ==
    /\ file = <<>> /\ content = "" /\ pos = 1 /\ nodes = <<>> /\ edges = <<>>
    /\ node_set = {} /\ calls_map = <<>> /\ prev = NoRun

\* parse_dot_file up to f.read(): the lists are empty and the text is read.
VizStart(f) ==
    /\ tool = DOT2INTERACTIVE
    /\ pc = "scan_nodes"
    /\ file = f
    /\ content = FileText(f)
    /\ pos = 1
    /\ nodes = <<>> /\ edges = <<>> /\ node_set = {} /\ calls_map = <<>>

InitViz ==
    /\ \E f \in VizFiles : VizStart(f)
    /\ prev = NoRun
    /\ cmpIdle /\ pageIdle

\* InsertNode without the "if node_id not in node_set" test.
InsertNodeNoCheck(m) ==
    /\ node_set' = node_set \cup {m.g1}
    /\ nodes' = Append(nodes, NodeDict(m.g1, m.g2))
    /\ calls_map' = [k \in DOMAIN calls_map \cup {m.g1} |->
                       IF k = m.g1 THEN {} ELSE calls_map[k]]

\* The insertion of one matched node declaration (the body of the first loop).
InsertNode(m) ==
    IF m.g1 \notin node_set
    THEN /\ node_set' = node_set \cup {m.g1}
         /\ nodes' = Append(nodes, NodeDict(m.g1, m.g2))
         /\ calls_map' = [k \in DOMAIN calls_map \cup {m.g1} |->
                            IF k = m.g1 THEN {} ELSE calls_map[k]]
    ELSE UNCHANGED <<node_set, nodes, calls_map>>

\* One iteration of "for match in re.finditer(node_pattern, content)".
ScanNode ==
    /\ tool = DOT2INTERACTIVE /\ pc = "scan_nodes"
    /\ LET m == NextNodeMatch(content, pos)
       IN  /\ m.ok
           /\ InsertNode(m)
           /\ pos' = m.next
    /\ UNCHANGED <<tool, pc, file, content, edges, prev>>
    /\ UNCHANGED cmpVars /\ UNCHANGED pageVars

\* The node loop ends: no further match.
NodesDone ==
    /\ tool = DOT2INTERACTIVE /\ pc = "scan_nodes"
    /\ ~NextNodeMatch(content, pos).ok
    /\ pc' = "scan_edges"
    /\ pos' = 1
    /\ UNCHANGED <<tool, file, content, nodes, edges, node_set, calls_map, prev>>
    /\ UNCHANGED cmpVars /\ UNCHANGED pageVars

\* AppendEdge with the append moved under "if source in calls_map".
AppendEdgeDeclaredOnly(m) ==
    IF m.g1 \in DOMAIN calls_map
    THEN /\ edges' = Append(edges, EdgeDict(m.g1, m.g2))
         /\ calls_map' = [calls_map EXCEPT ![m.g1] = @ \cup {m.g2}]
    ELSE UNCHANGED <<edges, calls_map>>

\* The body of the second loop: the edge is appended, and recorded in
\* calls_map when its source is a declared node.
AppendEdge(m) ==
    /\ edges' = Append(edges, EdgeDict(m.g1, m.g2))
    /\ calls_map' = IF m.g1 \in DOMAIN calls_map
                    THEN [calls_map EXCEPT ![m.g1] = @ \cup {m.g2}]
                    ELSE calls_map

\* One iteration of "for match in re.finditer(edge_pattern, content)".
ScanEdge ==
    /\ tool = DOT2INTERACTIVE /\ pc = "scan_edges"
    /\ LET m == NextEdgeMatch(content, pos)
       IN  /\ m.ok
           /\ AppendEdge(m)
           /\ pos' = m.next
    /\ UNCHANGED <<tool, pc, file, content, nodes, node_set, prev>>
    /\ UNCHANGED cmpVars /\ UNCHANGED pageVars

\* The edge loop ends: return nodes, edges, calls_map.
EdgesDone ==
    /\ tool = DOT2INTERACTIVE /\ pc = "scan_edges"
    /\ ~NextEdgeMatch(content, pos).ok
    /\ pc' = "returned"
    /\ UNCHANGED <<tool, file, content, pos, nodes, edges, node_set, calls_map, prev>>
    /\ UNCHANGED cmpVars /\ UNCHANGED pageVars

\* The extracted graph in canonical form: a set of (id,label) pairs and a set
\* of (from,to) pairs.
Range(s) == {s[i] : i \in DOMAIN s}
VizGraph ==
    [nodes |-> {<<n.id, n.label>> : n \in Range(nodes)},
     edges |-> {<<e.from, e.to>> : e \in Range(edges)}]

SwapLines(f, i) ==
    [k \in DOMAIN f |-> IF k = i THEN f[i + 1] ELSE IF k = i + 1 THEN f[i] ELSE f[k]]

\* The tool is run again on the same lines with two neighbours exchanged;
\* prev keeps the graph of the run that just returned.
RunPermuted ==
    /\ tool = DOT2INTERACTIVE /\ pc = "returned"
    /\ \E i \in 1..(Len(file) - 1) :
          /\ file[i] # file[i + 1]
          /\ file' = SwapLines(file, i)
          /\ content' = FileText(file')
    /\ prev' = [ran |-> TRUE, graph |-> VizGraph]
    /\ pc' = "scan_nodes"
    /\ pos' = 1
    /\ nodes' = <<>> /\ edges' = <<>> /\ node_set' = {} /\ calls_map' = <<>>
    /\ UNCHANGED tool
    /\ UNCHANGED cmpVars /\ UNCHANGED pageVars

VizNext == ScanNode \/ NodesDone \/ ScanEdge \/ EdgesDone \/ RunPermuted

(***************************************************************************)
(* tests/dotdiff.py: parse_dot_file, compare_dot_files, main.              *)
(***************************************************************************)
\* The printable ASCII characters in code-point order (the backquote, which a
\* TLA+ string cannot hold, left out): Python compares str values character
\* by character by code point.
AsciiOrder ==
    " !\"#$%&'()*+,-./0123456789:;<=>?@ABCDEFGHIJKLMNOPQRSTUVWXYZ[\\]^_abcdefghijklmnopqrstuvwxyz{|}~"

Code(c) == CHOOSE i \in 1..Len(AsciiOrder) : Char(AsciiOrder, i) = c

\* s < t on str.
RECURSIVE StrLess(_, _)
StrLess(s, t) ==
    IF t = "" THEN FALSE
    ELSE IF s = "" THEN TRUE
    ELSE IF Head(s) = Head(t) THEN StrLess(Tail(s), Tail(t))
    ELSE Code(Head(s)) < Code(Head(t))

\* p < q on 2-tuples of str.
TupleLess(p, q) ==
    IF p[1] # q[1] THEN StrLess(p[1], q[1]) ELSE StrLess(p[2], q[2])

\* sorted(S) for a set S of 2-tuples of str.
RECURSIVE Sorted(_)
Sorted(S) ==
    IF S = {} THEN <<>>
    ELSE LET m == CHOOSE x \in S : \A y \in S \ {x} : TupleLess(x, y)
         IN  <<m>> \o Sorted(S \ {m})

\* str(n) for n >= 0.
RECURSIVE ToStr(_)
ToStr(n) ==
    IF n < 10 THEN Char("0123456789", n + 1)
    ELSE ToStr(n \div 10) \o Char("0123456789", (n % 10) + 1)

\* "\n".join(lines)
RECURSIVE JoinLines(_)
JoinLines(lines) ==
    IF lines = <<>> THEN ""
    ELSE IF Len(lines) = 1 THEN lines[1]
    ELSE lines[1] \o "\n" \o JoinLines(Tail(lines))

\* DotdiffNodes that skips a match whose id is already in the set, as the
\* visualizer's loop does.
RECURSIVE DotdiffNodesFirstWins(_, _, _)
DotdiffNodesFirstWins(s, i, acc) ==
    LET m == NextNodeMatch(s, i)
    IN  IF ~m.ok THEN acc
        ELSE IF \E p \in acc : p[1] = m.g1
             THEN DotdiffNodesFirstWins(s, m.next, acc)
             ELSE DotdiffNodesFirstWins(s, m.next, acc \cup {<<m.g1, m.g2>>})

\* The two loops of dotdiff.parse_dot_file: every match is added to a set.
RECURSIVE DotdiffNodes(_, _, _)
DotdiffNodes(s, i, acc) ==
    LET m == NextNodeMatch(s, i)
    IN  IF m.ok THEN DotdiffNodes(s, m.next, acc \cup {<<m.g1, m.g2>>}) ELSE acc

RECURSIVE DotdiffEdges(_, _, _)
DotdiffEdges(s, i, acc) ==
    LET m == NextEdgeMatch(s, i)
    IN  IF m.ok THEN DotdiffEdges(s, m.next, acc \cup {<<m.g1, m.g2>>}) ELSE acc

\* dotdiff.parse_dot_file on the text of a file.
DotdiffParse(text) ==
    [nodes |-> DotdiffNodes(text, 1, {}), edges |-> DotdiffEdges(text, 1, {})]

\* One section of the report: a header and the sorted members, when the
\* difference is not empty.
NodeSection(header, mark, S) ==
    IF S = {} THEN <<>>
    ELSE LET items == Sorted(S)
         IN  <<header>> \o
             [k \in 1..Len(items) |->
                "  " \o mark \o " " \o items[k][1] \o " [label=" \o items[k][2] \o "]"]

EdgeSection(header, mark, S) ==
    IF S = {} THEN <<>>
    ELSE LET items == Sorted(S)
         IN  <<header>> \o
             [k \in 1..Len(items) |->
                "  " \o mark \o " " \o items[k][1] \o " -> " \o items[k][2]]

\* NodesOnlyIn2 with the operands left as in the line above it.
NodesOnlyIn2Copied(g1, g2) == g1.nodes \ g2.nodes

\* The four set differences of compare_dot_files.
NodesOnlyIn1(g1, g2) == g1.nodes \ g2.nodes
NodesOnlyIn2(g1, g2) == g2.nodes \ g1.nodes
EdgesOnlyIn1(g1, g2) == g1.edges \ g2.edges
EdgesOnlyIn2(g1, g2) == g2.edges \ g1.edges

\* Differences without the section of the edges only in the generated file.
DifferencesThreeSections(g1, g2) ==
    NodeSection("Nodes only in reference file:", "-", g1.nodes \ g2.nodes)
    \o NodeSection("Nodes only in generated file:", "+", g2.nodes \ g1.nodes)
    \o EdgeSection("Edges only in reference file:", "-", g1.edges \ g2.edges)

\* The list "differences" of compare_dot_files.
Differences(g1, g2) ==
    NodeSection("Nodes only in reference file:", "-", NodesOnlyIn1(g1, g2))
    \o NodeSection("Nodes only in generated file:", "+", NodesOnlyIn2(g1, g2))
    \o EdgeSection("Edges only in reference file:", "-", EdgesOnlyIn1(g1, g2))
    \o EdgeSection("Edges only in generated file:", "+", EdgesOnlyIn2(g1, g2))

IsEqual(diffs) == Len(diffs) = 0

\* The summary string of compare_dot_files.
Summary(g1, g2, diffs) ==
    IF IsEqual(diffs) THEN "Graphs are structurally identical"
    ELSE "Graphs differ:\n"
         \o "  Reference: " \o ToStr(Cardinality(g1.nodes)) \o " nodes, "
         \o ToStr(Cardinality(g1.edges)) \o " edges\n"
         \o "  Generated: " \o ToStr(Cardinality(g2.nodes)) \o " nodes, "
         \o ToStr(Cardinality(g2.edges)) \o " edges\n"
         \o (IF diffs # <<>> THEN "\nDifferences:\n" \o JoinLines(diffs) ELSE "")

\* compare_dot_files(file1, file2) as a value: (is_equal, summary) and the
\* intermediate results.
CompareDotFiles(f1, f2) ==
    LET g1 == DotdiffParse(FileText(f1))
        g2 == DotdiffParse(FileText(f2))
        d  == Differences(g1, g2)
    IN  [graph1 |-> g1, graph2 |-> g2, differences |-> d,
         is_equal |-> IsEqual(d), summary |-> Summary(g1, g2, d)]

REF == "ref.dot"
GEN == "gen.dot"

CmpLines ==
    {NodeLine("a", "x"), NodeLine("a", "y"),
     EdgeLine("a", "b"), EdgeLine("b", "a"), OtherLine}
CmpFiles == SeqsUpTo(CmpLines, MaxCmpLines)

\* Path.exists()
Exists(f) == f.exists

InitCmp ==
    /\ tool = DOTDIFF
    /\ pc = "main"
    /\ \/ /\ argv = <<REF, GEN>>
          /\ reference \in {RegularFile(f) : f \in CmpFiles} \cup {NoFile}
          /\ generated \in {RegularFile(f) : f \in CmpFiles} \cup {NoFile}
       \/ /\ argv \in {<<>>, <<REF>>, <<REF, GEN, GEN>>}
          /\ reference = NoFile /\ generated = NoFile
    /\ opened = {} /\ graph1 = NoGraph /\ graph2 = NoGraph
    /\ differences = <<>> /\ is_equal = FALSE
    /\ stdout = <<>> /\ exit_code = NoExit
    /\ vizIdle /\ pageIdle

\* print(message); sys.exit(code)
PrintExit(message, code) ==
    /\ stdout' = Append(stdout, message)
    /\ exit_code' = code
    /\ pc' = "exited"

\* main: len(sys.argv) != 3.
MainUsage ==
    /\ tool = DOTDIFF /\ pc = "main"
    /\ Len(argv) + 1 # 3
    /\ PrintExit("Usage: dotdiff.py <reference.dot> <generated.dot>", 1)
    /\ UNCHANGED <<tool, argv, reference, generated, opened, graph1, graph2,
                   differences, is_equal>>
    /\ UNCHANGED vizVars /\ UNCHANGED pageVars

\* main: the reference file does not exist.
MainReferenceMissing ==
    /\ tool = DOTDIFF /\ pc = "main"
    /\ Len(argv) + 1 = 3
    /\ ~Exists(reference)
    /\ PrintExit("Error: Reference file not found: " \o argv[1], 1)
    /\ UNCHANGED <<tool, argv, reference, generated, opened, graph1, graph2,
                   differences, is_equal>>
    /\ UNCHANGED vizVars /\ UNCHANGED pageVars

\* main: the reference file exists and the generated file does not.
MainGeneratedMissing ==
    /\ tool = DOTDIFF /\ pc = "main"
    /\ Len(argv) + 1 = 3
    /\ Exists(reference)
    /\ ~Exists(generated)
    /\ PrintExit("Error: Generated file not found: " \o argv[2], 1)
    /\ UNCHANGED <<tool, argv, reference, generated, opened, graph1, graph2,
                   differences, is_equal>>
    /\ UNCHANGED vizVars /\ UNCHANGED pageVars

\* main: both files exist; is_equal, summary = compare_dot_files(...).
MainCompare ==
    /\ tool = DOTDIFF /\ pc = "main"
    /\ Len(argv) + 1 = 3
    /\ Exists(reference) /\ Exists(generated)
    /\ graph1' = DotdiffParse(FileText(reference.lines))
    /\ graph2' = DotdiffParse(FileText(generated.lines))
    /\ differences' = Differences(graph1', graph2')
    /\ is_equal' = IsEqual(differences')
    /\ opened' = {argv[1], argv[2]}
    /\ pc' = "compared"
    /\ UNCHANGED <<tool, argv, reference, generated, stdout, exit_code>>
    /\ UNCHANGED vizVars /\ UNCHANGED pageVars

\* MainReport that exits with 0 whatever the verdict.
MainReportExitZero ==
    /\ tool = DOTDIFF /\ pc = "compared"
    /\ PrintExit(Summary(graph1, graph2, differences), 0)
    /\ UNCHANGED <<tool, argv, reference, generated, opened, graph1, graph2,
                   differences, is_equal>>
    /\ UNCHANGED vizVars /\ UNCHANGED pageVars

\* main: print(summary); sys.exit(0 if is_equal else 1).
MainReport ==
    /\ tool = DOTDIFF /\ pc = "compared"
    /\ PrintExit(Summary(graph1, graph2, differences), IF is_equal THEN 0 ELSE 1)
    /\ UNCHANGED <<tool, argv, reference, generated, opened, graph1, graph2,
                   differences, is_equal>>
    /\ UNCHANGED vizVars /\ UNCHANGED pageVars

CmpNext ==
    MainUsage \/ MainReferenceMissing \/ MainGeneratedMissing \/ MainCompare
    \/ MainReport

Init == InitViz \/ InitCmp
Next == VizNext \/ CmpNext
Spec == Init /\ [][Next]_vars

(***************************************************************************)
(* The visualizer on files whose ids exercise the classification rules.    *)
(***************************************************************************)
ModuleIds == {"__mod_init", "__mod_"}
SystemIds == {"_gfortran_st_write", "_gfortran_",
              "malloc", "free", "memset", "memmove", "realloc"}
EntryIds == {"main", "MAIN__", "sqrt", "lround", "copysign"}
UserIds == {"compute_sum", "__mod", "_gfortran", "mallocx", "Main", "x__mod_f"}
ClassIds == ModuleIds \cup SystemIds \cup EntryIds \cup UserIds

ClassLines ==
    {NodeLine(i, "f") : i \in ClassIds} \cup {EdgeLine("main", "malloc")}
ClassFiles == SeqsUpTo(ClassLines, MaxClassLines)

InitClassify ==
    /\ \E f \in ClassFiles : VizStart(f)
    /\ prev = NoRun
    /\ cmpIdle /\ pageIdle

SpecClassify == InitClassify /\ [][VizNext]_vars

(***************************************************************************)
(* dot2interactive.py: the script of the generated page.  The page holds   *)
(* the node list in a vis.DataSet and the edge list in allEdges; each      *)
(* handler runs to completion.                                             *)
(***************************************************************************)
\* The files the page is generated from: four node declarations, one of each
\* category, followed by edge declarations.
RenderNodeLines ==
    <<NodeLine("main", "Main"), NodeLine("__mod_op", "Op"),
      NodeLine("malloc", "malloc"), NodeLine("constructor", "ctor")>>
RenderEdgeLines ==
    {EdgeLine("main", "malloc"), EdgeLine("__mod_op", "malloc"),
     EdgeLine("constructor", "malloc"), EdgeLine("main", "ghost")}
RenderFiles == {RenderNodeLines \o e : e \in SeqsUpTo(RenderEdgeLines, MaxRenderEdges)}

SearchTerms == {"", "MA"}
FilterValues == {"all", "user", "module", "nolib"}

InitRender ==
    /\ \E f \in RenderFiles : VizStart(f)
    /\ prev = NoRun
    /\ cmpIdle /\ pageIdle

(***************************************************************************)
(* The control panel: it collapses when its timer expires and expands on   *)
(* mouse enter or click.  Time is counted in seconds.                      *)
(***************************************************************************)
\* setTimeout(collapseControls, 3000)
CollapseDelay == 3

\* collapseControls()
collapseControls == isCollapsed' = IF ~isCollapsed THEN TRUE ELSE isCollapsed

\* expandControls()
expandControls == isCollapsed' = IF isCollapsed THEN FALSE ELSE isCollapsed

\* resetCollapseTimeout(): the pending timer is cleared and a new one starts.
resetCollapseTimeout == collapseTimeout' = 0

\* The panel's listeners for the events that bubble up from its controls.
PanelInput ==
    /\ resetCollapseTimeout
    /\ idle' = 0
    /\ UNCHANGED isCollapsed

PanelChange ==
    /\ resetCollapseTimeout
    /\ idle' = 0
    /\ UNCHANGED isCollapsed

PanelClick ==
    /\ IF isCollapsed
       THEN expandControls /\ resetCollapseTimeout
       ELSE UNCHANGED <<isCollapsed, collapseTimeout>>
    /\ idle' = 0

\* generate_html embeds json.dumps(nodes) and json.dumps(edges) in the page;
\* on load the script builds nodes = new vis.DataSet(allNodes) and keeps
\* allEdges.  An item of the DataSet is the node dict, stored under its id.
LoadPage ==
    /\ tool = DOT2INTERACTIVE /\ pc = "returned"
    /\ pc' = "page"
    /\ nodesDS' = [id \in {nodes[i].id : i \in DOMAIN nodes} |->
                     nodes[CHOOSE i \in DOMAIN nodes : nodes[i].id = id]]
    /\ allEdges' = edges
    /\ collapsedNodes' = <<>>
    /\ isCollapsed' = FALSE
    /\ resetCollapseTimeout
    /\ idle' = 0
    /\ UNCHANGED <<tool, searchInput, filterSelect, event>>
    /\ UNCHANGED vizVars /\ UNCHANGED cmpVars

\* String.prototype.toLowerCase on ASCII text.
LowerChar(c) ==
    IF \E i \in 1..26 : Char("ABCDEFGHIJKLMNOPQRSTUVWXYZ", i) = c
    THEN Char("abcdefghijklmnopqrstuvwxyz",
              CHOOSE i \in 1..26 : Char("ABCDEFGHIJKLMNOPQRSTUVWXYZ", i) = c)
    ELSE c

RECURSIVE ToLowerCase(_)
ToLowerCase(s) ==
    IF s = "" THEN "" ELSE LowerChar(Head(s)) \o ToLowerCase(Tail(s))

\* String.prototype.includes
Includes(s, t) ==
    \E i \in 1..(Len(s) - Len(t) + 1) : SubSeq(s, i, i + Len(t) - 1) = t

\* An item after DataSet.update merges the properties of u into it.
Merge(item, u) ==
    [k \in DOMAIN item \cup DOMAIN u |-> IF k \in DOMAIN u THEN u[k] ELSE item[k]]

\* vis.DataSet.update(updates): updates maps ids to the properties to set.  An
\* item that exists is merged with them; an id that names no item gets a new
\* item made of the id and the properties.
Update(ds, updates) ==
    [id \in DOMAIN ds \cup DOMAIN updates |->
        IF id \notin DOMAIN updates THEN ds[id]
        ELSE IF id \in DOMAIN ds THEN Merge(ds[id], updates[id])
        ELSE Merge([id |-> id], updates[id])]

\* The shapeProperties.borderDashes values: false, and the pattern [5, 5].
NoDashes == <<>>
Dashes == <<5, 5>>

\* Whether the network draws the item: hidden is absent or false.
Visible(item) == ~("hidden" \in DOMAIN item /\ item.hidden)

\* The properties every object inherits from Object.prototype: for these
\* keys collapsedNodes[key] is a function or an object, which is truthy,
\* whether or not the key was ever assigned.
ObjectPrototypeKeys ==
    {"constructor", "toString", "toLocaleString", "valueOf", "hasOwnProperty",
     "isPrototypeOf", "propertyIsEnumerable", "__proto__",
     "__defineGetter__", "__defineSetter__", "__lookupGetter__", "__lookupSetter__"}

\* if (collapsedNodes[nodeId]): an own property holds a non-empty array.
Truthy(nodeId) ==
    nodeId \in DOMAIN collapsedNodes \/ nodeId \in ObjectPrototypeKeys

\* The search box's input handler for the typed text.
Search(term) ==
    /\ tool = DOT2INTERACTIVE /\ pc = "page"
    /\ ~isCollapsed
    /\ PanelInput
    /\ searchInput' = term
    /\ event' = [type |-> "search", arg |-> term]
    /\ LET searchTerm == ToLowerCase(term)
       IN  IF searchTerm = ""
           THEN nodesDS' = Update(nodesDS,
                    [id \in DOMAIN nodesDS |-> [hidden |-> FALSE, borderWidth |-> 1]])
           ELSE IF \E id \in DOMAIN nodesDS : "label" \notin DOMAIN nodesDS[id]
                THEN \* node.label is undefined: toLowerCase throws a TypeError
                     \* inside forEach, before nodes.update is reached.
                     UNCHANGED nodesDS
                ELSE nodesDS' = Update(nodesDS,
                         [id \in DOMAIN nodesDS |->
                            [hidden |-> FALSE,
                             borderWidth |->
                                IF Includes(ToLowerCase(nodesDS[id].label), searchTerm)
                                THEN 3 ELSE 1]])
    /\ UNCHANGED <<tool, pc, allEdges, collapsedNodes, filterSelect>>
    /\ UNCHANGED vizVars /\ UNCHANGED cmpVars

\* Show with the 'nolib' test negated (!== for ===).
ShowNolibNegated(filter, item) ==
    LET hasGroup == "group" \in DOMAIN item
    IN  ~ \/ filter = "user" /\ ~(hasGroup /\ item.group = 4)
          \/ filter = "module" /\ ~(hasGroup /\ item.group = 1)
          \/ filter = "nolib" /\ ~(hasGroup /\ item.group = 2)

\* The "show" flag the filter handler computes for an item; an item without a
\* group has group undefined, which is neither 4 nor 1 nor 2.
Show(filter, item) ==
    LET hasGroup == "group" \in DOMAIN item
    IN  ~ \/ filter = "user" /\ ~(hasGroup /\ item.group = 4)
          \/ filter = "module" /\ ~(hasGroup /\ item.group = 1)
          \/ filter = "nolib" /\ (hasGroup /\ item.group = 2)

\* The filter select's change handler; the browser fires it when the selected
\* value changes.
FilterChange(filter) ==
    /\ tool = DOT2INTERACTIVE /\ pc = "page"
    /\ ~isCollapsed
    /\ filter # filterSelect
    /\ PanelChange
    /\ filterSelect' = filter
    /\ event' = [type |-> "filter", arg |-> filter]
    /\ nodesDS' = Update(nodesDS,
           [id \in DOMAIN nodesDS |-> [hidden |-> ~Show(filter, nodesDS[id])]])
    /\ UNCHANGED <<tool, pc, allEdges, collapsedNodes, searchInput>>
    /\ UNCHANGED vizVars /\ UNCHANGED cmpVars

\* The children of a node: edge.to of every edge of allEdges that leaves it,
\* in list order.
RECURSIVE ChildrenIn(_, _)
ChildrenIn(es, nodeId) ==
    IF es = <<>> THEN <<>>
    ELSE IF Head(es).from = nodeId
         THEN <<Head(es).to>> \o ChildrenIn(Tail(es), nodeId)
         ELSE ChildrenIn(Tail(es), nodeId)

Children(nodeId) == ChildrenIn(allEdges, nodeId)

\* The network's doubleClick handler for a click on a drawn node.
DoubleClick(nodeId) ==
    /\ tool = DOT2INTERACTIVE /\ pc = "page"
    /\ nodeId \in DOMAIN nodesDS /\ Visible(nodesDS[nodeId])
    /\ event' = [type |-> "doubleClick", arg |-> nodeId]
    /\ LET children == Children(nodeId)
       IN  IF Len(children) = 0
           THEN UNCHANGED <<nodesDS, collapsedNodes>>
           ELSE IF Truthy(nodeId)
           THEN \* expand
                /\ nodesDS' =
                     Update(Update(nodesDS,
                                   [id \in Range(children) |-> [hidden |-> FALSE]]),
                            [id \in {nodeId} |->
                               [borderWidth |-> 1,
                                shapeProperties |-> [borderDashes |-> NoDashes]]])
                /\ collapsedNodes' =
                     [k \in DOMAIN collapsedNodes \ {nodeId} |-> collapsedNodes[k]]
           ELSE \* collapse
                /\ nodesDS' =
                     Update(Update(nodesDS,
                                   [id \in Range(children) |-> [hidden |-> TRUE]]),
                            [id \in {nodeId} |->
                               [borderWidth |-> 3,
                                shapeProperties |-> [borderDashes |-> Dashes]]])
                /\ collapsedNodes' =
                     [k \in DOMAIN collapsedNodes \cup {nodeId} |->
                        IF k = nodeId THEN children ELSE collapsedNodes[k]]
    /\ UNCHANGED <<tool, pc, allEdges, searchInput, filterSelect>>
    /\ UNCHANGED panelVars
    /\ UNCHANGED vizVars /\ UNCHANGED cmpVars

\* ResetView that leaves the collapse records in place.
ResetViewKeepsRecords ==
    /\ tool = DOT2INTERACTIVE /\ pc = "page"
    /\ ~isCollapsed
    /\ PanelClick
    /\ searchInput' = ""
    /\ filterSelect' = "all"
    /\ event' = [type |-> "reset", arg |-> ""]
    /\ nodesDS' = Update(nodesDS,
           [id \in DOMAIN nodesDS |->
              [hidden |-> FALSE, borderWidth |-> 1,
               shapeProperties |-> [borderDashes |-> NoDashes]]])
    /\ UNCHANGED collapsedNodes
    /\ UNCHANGED <<tool, pc, allEdges>>
    /\ UNCHANGED vizVars /\ UNCHANGED cmpVars

\* resetView(), the handler of the Reset View button.
ResetView ==
    /\ tool = DOT2INTERACTIVE /\ pc = "page"
    /\ ~isCollapsed
    /\ PanelClick
    /\ searchInput' = ""
    /\ filterSelect' = "all"
    /\ event' = [type |-> "reset", arg |-> ""]
    /\ nodesDS' = Update(nodesDS,
           [id \in DOMAIN nodesDS |->
              [hidden |-> FALSE, borderWidth |-> 1,
               shapeProperties |-> [borderDashes |-> NoDashes]]])
    /\ collapsedNodes' = <<>>
    /\ UNCHANGED <<tool, pc, allEdges>>
    /\ UNCHANGED vizVars /\ UNCHANGED cmpVars

\* The mouse pointer enters the panel.
MouseEnter ==
    /\ tool = DOT2INTERACTIVE /\ pc = "page"
    /\ expandControls
    /\ resetCollapseTimeout
    /\ idle' = 0
    /\ UNCHANGED <<tool, pc>> /\ UNCHANGED graphVars
    /\ UNCHANGED vizVars /\ UNCHANGED cmpVars

\* The mouse pointer leaves the panel.
MouseLeave ==
    /\ tool = DOT2INTERACTIVE /\ pc = "page"
    /\ resetCollapseTimeout
    /\ idle' = 0
    /\ UNCHANGED isCollapsed
    /\ UNCHANGED <<tool, pc>> /\ UNCHANGED graphVars
    /\ UNCHANGED vizVars /\ UNCHANGED cmpVars

\* A click on the panel that changes nothing of the graph: on the collapsed
\* panel, on its background, or on the Fit, Physics or Export button.
Click ==
    /\ tool = DOT2INTERACTIVE /\ pc = "page"
    /\ PanelClick
    /\ UNCHANGED <<tool, pc>> /\ UNCHANGED graphVars
    /\ UNCHANGED vizVars /\ UNCHANGED cmpVars

\* The pending timer is due: the browser runs collapseControls.
TimerExpires ==
    /\ tool = DOT2INTERACTIVE /\ pc = "page"
    /\ collapseTimeout >= CollapseDelay
    /\ collapseControls
    /\ collapseTimeout' = NoTimer
    /\ UNCHANGED idle
    /\ UNCHANGED <<tool, pc>> /\ UNCHANGED graphVars
    /\ UNCHANGED vizVars /\ UNCHANGED cmpVars

\* One second passes.  A timer that is due may still be waiting to run.
Tick ==
    /\ tool = DOT2INTERACTIVE /\ pc = "page"
    /\ collapseTimeout' =
          IF collapseTimeout # NoTimer /\ collapseTimeout < CollapseDelay
          THEN collapseTimeout + 1 ELSE collapseTimeout
    /\ idle' = IF idle < CollapseDelay THEN idle + 1 ELSE idle
    /\ UNCHANGED isCollapsed
    /\ UNCHANGED <<tool, pc>> /\ UNCHANGED graphVars
    /\ UNCHANGED vizVars /\ UNCHANGED cmpVars

PanelNext == MouseEnter \/ MouseLeave \/ Click \/ TimerExpires \/ Tick

PageNext ==
    \/ LoadPage
    \/ \E term \in SearchTerms : Search(term)
    \/ \E filter \in FilterValues : FilterChange(filter)
    \/ \E nodeId \in DOMAIN nodesDS : DoubleClick(nodeId)
    \/ ResetView

RenderNext == ScanNode \/ NodesDone \/ ScanEdge \/ EdgesDone \/ PageNext

SpecRender == InitRender /\ [][RenderNext]_vars

(***************************************************************************)
(* The page of one small graph, with its control panel and the clock.      *)
(***************************************************************************)
PanelFile ==
    <<NodeLine("main", "Main"), NodeLine("malloc", "malloc"),
      EdgeLine("main", "malloc")>>

InitPanel ==
    /\ VizStart(PanelFile)
    /\ prev = NoRun
    /\ cmpIdle /\ pageIdle

PanelPageNext == RenderNext \/ PanelNext

SpecPanel == InitPanel /\ [][PanelPageNext]_vars

(***************************************************************************)
(* What a file declares, read off its lines (not off its text).            *)
(***************************************************************************)
NodeLinesOf(f) == {k \in DOMAIN f : f[k].kind = "node"}
EdgeLinesOf(f) == {k \in DOMAIN f : f[k].kind = "edge"}
DeclaredNodes(f) == {<<f[k].id, f[k].label>> : k \in NodeLinesOf(f)}
DeclaredEdges(f) == {<<f[k].from, f[k].to>> : k \in EdgeLinesOf(f)}
DeclaredIds(f) == {f[k].id : k \in NodeLinesOf(f)}

\* f and g hold the same lines the same number of times.
Count(f, l) == Cardinality({k \in DOMAIN f : f[k] = l})
IsPermutation(f, g) ==
    /\ Len(f) = Len(g)
    /\ \A l \in Range(f) \cup Range(g) : Count(f, l) = Count(g, l)

\* Some id is declared with two different labels.
HasConflict(f) ==
    \E j, k \in NodeLinesOf(f) : f[j].id = f[k].id /\ f[j].label # f[k].label

Compared == tool = DOTDIFF /\ pc \in {"compared", "exited"} /\ opened # {}

(***************************************************************************)
(* C1.  compare_dot_files returns 'equal' exactly when the two files       *)
(* declare the same set of (id,label) pairs and the same set of (from,to)  *)
(* pairs, which is exactly when the four set differences are empty.  The   *)
(* verdict is a function of the declared sets alone, so neither the order  *)
(* of the declarations nor their repetition changes it.                    *)
(***************************************************************************)
C1_EqualIffSameSets ==
    Compared =>
        /\ is_equal <=>
             /\ DeclaredNodes(reference.lines) = DeclaredNodes(generated.lines)
             /\ DeclaredEdges(reference.lines) = DeclaredEdges(generated.lines)
        /\ is_equal <=>
             /\ graph1.nodes \ graph2.nodes = {}
             /\ graph2.nodes \ graph1.nodes = {}
             /\ graph1.edges \ graph2.edges = {}
             /\ graph2.edges \ graph1.edges = {}

\* Two files that differ in the order of their declarations, each declaring
\* a node and an edge, compared equal.
C1_Witness ==
    /\ Compared /\ is_equal
    /\ reference.lines # generated.lines
    /\ IsPermutation(reference.lines, generated.lines)
    /\ graph1.nodes # {} /\ graph1.edges # {}

(***************************************************************************)
(* C2.  dot2interactive.parse_dot_file: at every point of the node scan,   *)
(* each id declared by a node declaration scanned so far has exactly one   *)
(* entry in the node list, and that entry's label is the label of the      *)
(* first declaration of the id in file order.                              *)
(***************************************************************************)
\* Length of the text of the first k lines.
TextLenUpTo(f, k) == Len(FileText(SubSeq(f, 1, k)))

\* The node declarations the scan has passed.
ScannedNodeLines ==
    IF pc = "scan_nodes"
    THEN {k \in NodeLinesOf(file) : pos > TextLenUpTo(file, k - 1) + 1}
    ELSE NodeLinesOf(file)

FirstOf(S) == CHOOSE k \in S : \A j \in S : k <= j

C2_FirstDeclarationWins ==
    tool = DOT2INTERACTIVE =>
        \A k \in ScannedNodeLines :
            LET same == {j \in ScannedNodeLines : file[j].id = file[k].id}
                entries == {i \in DOMAIN nodes : nodes[i].id = file[k].id}
            IN  /\ Cardinality(entries) = 1
                /\ \A i \in entries : nodes[i].label = file[FirstOf(same)].label

\* In the middle of the node scan, two declarations of one id with different
\* labels have been scanned.
C2_Witness ==
    /\ tool = DOT2INTERACTIVE /\ pc = "scan_nodes"
    /\ \E j, k \in ScannedNodeLines :
          j < k /\ file[j].id = file[k].id /\ file[j].label # file[k].label
    /\ \E k \in NodeLinesOf(file) : k \notin ScannedNodeLines

(***************************************************************************)
(* C3.  dotdiff.parse_dot_file: no two (id,label) pairs of the node set    *)
(* share an id, and an id declared with several labels keeps the label of  *)
(* its first declaration.                                                  *)
(***************************************************************************)
FirstLabel(f, id) == f[FirstOf({k \in NodeLinesOf(f) : f[k].id = id})].label

C3_ComparatorIdsUnique ==
    Compared =>
        /\ \A p, q \in graph1.nodes : p[1] = q[1] => p = q
        /\ \A p \in graph1.nodes : p[2] = FirstLabel(reference.lines, p[1])

(***************************************************************************)
(* C4.  Order independence.  As claimed: after the declarations of a file  *)
(* are permuted, both extractors yield the same set of (id,label) pairs    *)
(* and the same set of (from,to) pairs as before.  (RunPermuted exchanges  *)
(* two neighbouring lines; every permutation is a chain of such            *)
(* exchanges.)                                                             *)
(***************************************************************************)
C4_OrderIndependent ==
    /\ (tool = DOT2INTERACTIVE /\ pc = "returned" /\ prev.ran)
          => VizGraph = prev.graph
    /\ (Compared /\ IsPermutation(reference.lines, generated.lines))
          => graph1 = graph2

(***************************************************************************)
(* C4 as amended.  After the declarations of a file are permuted, the      *)
(* comparator's extractor yields the identical graph; the visualizer's     *)
(* extractor yields the identical set of edges and the identical set of    *)
(* node ids, and the identical set of (id,label) pairs when no id is       *)
(* declared with two different labels.                                     *)
(***************************************************************************)
C4_OrderIndependentAmended ==
    /\ (tool = DOT2INTERACTIVE /\ pc = "returned" /\ prev.ran) =>
          /\ VizGraph.edges = prev.graph.edges
          /\ {n[1] : n \in VizGraph.nodes} = {n[1] : n \in prev.graph.nodes}
          /\ ~HasConflict(file) => VizGraph.nodes = prev.graph.nodes
    /\ (Compared /\ IsPermutation(reference.lines, generated.lines))
          => graph1 = graph2

\* A second run of the visualizer on permuted lines has returned a graph of
\* two nodes and an edge.
C4_Witness ==
    /\ tool = DOT2INTERACTIVE /\ pc = "returned" /\ prev.ran
    /\ ~HasConflict(file)
    /\ Len(nodes) = 2 /\ Len(edges) = 1

(***************************************************************************)
(* C5.  compare(A,B) and compare(B,A) give the same verdict, and what one  *)
(* reports as only in the reference file the other reports as only in the  *)
(* generated file, for nodes and for edges; comparing a file with itself   *)
(* gives 'equal' and an empty list of differences.                         *)
(***************************************************************************)
\* The members a report lists under a header, without their "  - " or "  + ".
RECURSIVE ItemsFrom(_, _)
ItemsFrom(report, k) ==
    IF k > Len(report) \/ ~StartsWith(report[k], "  ") THEN {}
    ELSE {SubSeq(report[k], 5, Len(report[k]))} \cup ItemsFrom(report, k + 1)

Reported(report, header) ==
    IF \E k \in DOMAIN report : report[k] = header
    THEN ItemsFrom(report, (CHOOSE k \in DOMAIN report : report[k] = header) + 1)
    ELSE {}

C5_Symmetry ==
    Compared =>
        LET back == CompareDotFiles(generated.lines, reference.lines)
        IN  /\ back.is_equal = is_equal
            /\ Reported(differences, "Nodes only in reference file:")
                 = Reported(back.differences, "Nodes only in generated file:")
            /\ Reported(differences, "Nodes only in generated file:")
                 = Reported(back.differences, "Nodes only in reference file:")
            /\ Reported(differences, "Edges only in reference file:")
                 = Reported(back.differences, "Edges only in generated file:")
            /\ Reported(differences, "Edges only in generated file:")
                 = Reported(back.differences, "Edges only in reference file:")
            /\ reference.lines = generated.lines
                 => is_equal /\ differences = <<>>

\* A comparison whose report has all four sections, the two node sections
\* with different members.
C5_Witness ==
    /\ Compared
    /\ Reported(differences, "Nodes only in reference file:") # {}
    /\ Reported(differences, "Nodes only in generated file:") # {}
    /\ Reported(differences, "Edges only in reference file:") # {}
    /\ Reported(differences, "Edges only in generated file:") # {}
    /\ Reported(differences, "Nodes only in reference file:")
         # Reported(differences, "Nodes only in generated file:")

(***************************************************************************)
(* C6.  dotdiff's main, given two paths, ends in exactly one of three      *)
(* ways: a path names no file: a file-not-found message, exit code 1, and  *)
(* no file was opened; both files exist and declare equal graphs: the      *)
(* one-line identical message and exit code 0; otherwise the diff report   *)
(* and exit code 1.  Nothing is printed before the exit.                   *)
(***************************************************************************)
SameGraph(f, g) ==
    /\ DeclaredNodes(f) = DeclaredNodes(g)
    /\ DeclaredEdges(f) = DeclaredEdges(g)

C6_ThreeOutcomes ==
    (tool = DOTDIFF /\ Len(argv) = 2) =>
        /\ pc # "exited" => stdout = <<>> /\ exit_code = NoExit
        /\ pc = "exited" =>
             /\ Len(stdout) = 1
             /\ exit_code \in {0, 1}
             /\ (~reference.exists \/ ~generated.exists) =>
                  /\ exit_code = 1
                  /\ \/ stdout[1] = "Error: Reference file not found: " \o argv[1]
                     \/ stdout[1] = "Error: Generated file not found: " \o argv[2]
                  /\ opened = {} /\ graph1 = NoGraph /\ graph2 = NoGraph
             /\ (reference.exists /\ generated.exists
                 /\ SameGraph(reference.lines, generated.lines)) =>
                  /\ exit_code = 0
                  /\ stdout[1] = "Graphs are structurally identical"
             /\ (reference.exists /\ generated.exists
                 /\ ~SameGraph(reference.lines, generated.lines)) =>
                  /\ exit_code = 1
                  /\ StartsWith(stdout[1], "Graphs differ:\n")
                  /\ differences # <<>>
             /\ exit_code = 0 =>
                  /\ reference.exists /\ generated.exists
                  /\ SameGraph(reference.lines, generated.lines)

\* main has exited on a missing generated file next to an existing reference
\* file that declares something.
C6_Witness ==
    /\ tool = DOTDIFF /\ pc = "exited" /\ Len(argv) = 2
    /\ reference.exists /\ ~generated.exists
    /\ DeclaredNodes(reference.lines) # {}
    /\ exit_code = 1

(***************************************************************************)
(* C8.  The model returned by dot2interactive.parse_dot_file: the node     *)
(* list has one entry per distinct declared id, in first-seen order, with  *)
(* the id unchanged; the edge list has one entry per edge declaration, in  *)
(* file order, duplicates and undeclared endpoints included; an id that    *)
(* occurs only as an edge endpoint gets no node entry.                     *)
(***************************************************************************)
\* The declared ids in first-seen order.
RECURSIVE FirstSeenIds(_, _)
FirstSeenIds(f, seen) ==
    IF f = <<>> THEN <<>>
    ELSE IF Head(f).kind = "node" /\ Head(f).id \notin seen
         THEN <<Head(f).id>> \o FirstSeenIds(Tail(f), seen \cup {Head(f).id})
         ELSE FirstSeenIds(Tail(f), seen)

\* The edge declarations in file order.
RECURSIVE EdgeDeclarations(_)
EdgeDeclarations(f) ==
    IF f = <<>> THEN <<>>
    ELSE IF Head(f).kind = "edge"
         THEN <<<<Head(f).from, Head(f).to>>>> \o EdgeDeclarations(Tail(f))
         ELSE EdgeDeclarations(Tail(f))

C8_ModelPreservesGraph ==
    (tool = DOT2INTERACTIVE /\ pc = "returned") =>
        /\ [i \in DOMAIN nodes |-> nodes[i].id] = FirstSeenIds(file, {})
        /\ [i \in DOMAIN edges |-> <<edges[i].from, edges[i].to>>]
             = EdgeDeclarations(file)
        /\ \A i \in DOMAIN edges : edges[i].arrows = "to"
        /\ \A i \in DOMAIN nodes : nodes[i].id \in DeclaredIds(file)

\* The returned model holds the same edge twice, its target declared by no
\* node declaration.
C8_Witness ==
    /\ tool = DOT2INTERACTIVE /\ pc = "returned"
    /\ Len(nodes) = 1 /\ Len(edges) = 2
    /\ edges[1] = edges[2]
    /\ edges[1].to \notin DeclaredIds(file)
(***************************************************************************)
(* C7.  Every node the visualizer emits carries one category code of       *)
(* {1,2,3,4}, fixed by its id alone: 1 for ids that start with '__mod_';   *)
(* else 2 for ids that start with '_gfortran_' or are one of malloc, free, *)
(* memset, memmove, realloc; else 3 for main, MAIN__, sqrt, lround,        *)
(* copysign; else 4.  The code of an id is the same in every run.          *)
(***************************************************************************)
C7_Category ==
    tool = DOT2INTERACTIVE =>
        \A i \in DOMAIN nodes :
            /\ nodes[i].group \in {1, 2, 3, 4}
            /\ nodes[i].id \in ModuleIds => nodes[i].group = 1
            /\ nodes[i].id \in SystemIds => nodes[i].group = 2
            /\ nodes[i].id \in EntryIds => nodes[i].group = 3
            /\ nodes[i].id \in UserIds => nodes[i].group = 4

\* A second run has emitted a runtime-library node by prefix and a node whose
\* id only resembles the module prefix.
C7_Witness ==
    /\ tool = DOT2INTERACTIVE /\ pc = "returned" /\ prev.ran
    /\ \E i, j \in DOMAIN nodes :
          /\ nodes[i].id = "_gfortran_st_write" /\ nodes[i].group = 2
          /\ nodes[j].id = "__mod" /\ nodes[j].group = 4
(***************************************************************************)
(* C9.  A double click on a node with at least one outgoing edge toggles   *)
(* it: without a collapse record, all its direct successors become hidden  *)
(* and a record mapping the node to exactly those successors is created;   *)
(* with a record, exactly the recorded successors become visible and the   *)
(* record is removed.  A double click on a node without outgoing edges     *)
(* changes no node's visibility or style and no collapse record.           *)
(***************************************************************************)
HasRecord(nodeId) == nodeId \in DOMAIN collapsedNodes

C9_Toggled(nodeId) ==
    LET successors == Children(nodeId)
    IN  IF successors = <<>>
        THEN nodesDS' = nodesDS /\ collapsedNodes' = collapsedNodes
        ELSE IF ~HasRecord(nodeId)
        THEN /\ \A c \in Range(successors) :
                  c \in DOMAIN nodesDS' /\ ~Visible(nodesDS'[c])
             /\ DOMAIN collapsedNodes' = DOMAIN collapsedNodes \cup {nodeId}
             /\ collapsedNodes'[nodeId] = successors
             /\ \A k \in DOMAIN collapsedNodes : collapsedNodes'[k] = collapsedNodes[k]
        ELSE /\ \A c \in Range(collapsedNodes[nodeId]) :
                  c \in DOMAIN nodesDS' /\ Visible(nodesDS'[c])
             /\ \A id \in DOMAIN nodesDS \ Range(collapsedNodes[nodeId]) :
                  Visible(nodesDS'[id]) = Visible(nodesDS[id])
             /\ DOMAIN collapsedNodes' = DOMAIN collapsedNodes \ {nodeId}
             /\ \A k \in DOMAIN collapsedNodes' : collapsedNodes'[k] = collapsedNodes[k]

C9_DoubleClickToggles ==
    [][\A nodeId \in DOMAIN nodesDS : DoubleClick(nodeId) => C9_Toggled(nodeId)]_vars

(***************************************************************************)
(* C10.  A change of the category filter, whatever searches, filters and   *)
(* collapses came before, leaves every node visible exactly when the       *)
(* chosen filter admits its category (all: every node; user: category 4;   *)
(* module: category 1; nolib: every category but 2), and leaves the        *)
(* collapse-state map as it was.                                           *)
(***************************************************************************)
\* The category of an item: its group, or the unused code 0 when it has none.
Category(item) == IF "group" \in DOMAIN item THEN item.group ELSE 0

Admits(filter, category) ==
    CASE filter = "all" -> TRUE
      [] filter = "user" -> category = 4
      [] filter = "module" -> category = 1
      [] filter = "nolib" -> category # 2

C10_FilterByCategory ==
    [][\A filter \in FilterValues :
          FilterChange(filter) =>
             /\ DOMAIN nodesDS' = DOMAIN nodesDS
             /\ \A id \in DOMAIN nodesDS' :
                   Visible(nodesDS'[id]) <=> Admits(filter, Category(nodesDS'[id]))
             /\ collapsedNodes' = collapsedNodes]_vars

\* The filter 'nolib' was just handled after a search and while a node is
\* collapsed: the collapsed node's child of category 2 is hidden, and a node
\* of another category is shown.
C10_Witness ==
    /\ pc = "page" /\ event = [type |-> "filter", arg |-> "nolib"]
    /\ searchInput # ""
    /\ \E p \in DOMAIN collapsedNodes :
          \E c \in Range(collapsedNodes[p]) :
             c \in DOMAIN nodesDS /\ Category(nodesDS[c]) = 2 /\ ~Visible(nodesDS[c])
    /\ \E id \in DOMAIN nodesDS : Category(nodesDS[id]) = 4 /\ Visible(nodesDS[id])

(***************************************************************************)
(* C11.  After Reset View, whatever searches, filters, collapses and       *)
(* expansions came before, the search text is empty, the filter selection  *)
(* is 'all', there is no collapse record, and every node is visible and    *)
(* unmarked: border width 1 and no dashed border.                          *)
(***************************************************************************)
\* The border width and dash pattern an item is drawn with; the network's
\* defaults apply to an item that sets none.
BorderWidth(item) == IF "borderWidth" \in DOMAIN item THEN item.borderWidth ELSE 1
BorderDashes(item) ==
    IF "shapeProperties" \in DOMAIN item
    THEN item.shapeProperties.borderDashes ELSE NoDashes

Unmarked(item) == BorderWidth(item) = 1 /\ BorderDashes(item) = NoDashes

AfterEvent(type) == tool = DOT2INTERACTIVE /\ pc = "page" /\ event.type = type

C11_ResetRestores ==
    AfterEvent("reset") =>
        /\ searchInput = ""
        /\ filterSelect = "all"
        /\ DOMAIN collapsedNodes = {}
        /\ \A id \in DOMAIN nodesDS :
              Visible(nodesDS[id]) /\ Unmarked(nodesDS[id])

\* Reset View was just handled on a page where main had been collapsed: the
\* item of the undeclared successor "ghost" exists only because the collapse
\* created it.
C11_Witness ==
    /\ AfterEvent("reset")
    /\ "ghost" \in DOMAIN nodesDS
    /\ "borderWidth" \in DOMAIN nodesDS["main"]

(***************************************************************************)
(* C12.  After a search event with a non-empty term, whatever came before, *)
(* every node is visible and has the thick border (width 3) exactly when   *)
(* its label contains the term, compared case-insensitively; after a       *)
(* search event with an empty term every node is visible and has the       *)
(* normal border width.                                                    *)
(***************************************************************************)
\* The items of the nodes the file declares; each has a label.
DeclaredItems == {id \in DOMAIN nodesDS : "label" \in DOMAIN nodesDS[id]}

ContainsIgnoringCase(label, term) ==
    Includes(ToLowerCase(label), ToLowerCase(term))

C12_SearchMarks ==
    AfterEvent("search") =>
        \A id \in DeclaredItems :
           /\ Visible(nodesDS[id])
           /\ IF event.arg = ""
              THEN BorderWidth(nodesDS[id]) = 1
              ELSE BorderWidth(nodesDS[id]) = 3
                      <=> ContainsIgnoringCase(nodesDS[id].label, event.arg)

(***************************************************************************)
(* C14.  In every state of the page, each node id with a collapse record   *)
(* maps to its direct successors and all of them are hidden: no search,    *)
(* filter change, double click or reset makes a recorded successor visible *)
(* while the record of its parent remains.                                 *)
(***************************************************************************)
C14_RecordedSuccessorsHidden ==
    (tool = DOT2INTERACTIVE /\ pc = "page") =>
        \A parent \in DOMAIN collapsedNodes :
           /\ collapsedNodes[parent] = Children(parent)
           /\ \A c \in Range(collapsedNodes[parent]) :
                 c \in DOMAIN nodesDS /\ ~Visible(nodesDS[c])

(***************************************************************************)
(* C13.  The control panel is a two-state machine: it becomes collapsed    *)
(* only when the inactivity timer expires, it becomes expanded only on     *)
(* mouse enter or another interaction, and every interaction with the      *)
(* panel (mouse enter, mouse leave, click, input, change) restarts the     *)
(* timer, so that the panel never collapses earlier than the delay after   *)
(* the most recent interaction.                                            *)
(***************************************************************************)
\* The steps that are an interaction with the panel: the mouse enters or
\* leaves it, a click in it (the Reset View button included), an input event
\* of the search box, a change event of the filter select.
PanelInteraction ==
    \/ MouseEnter \/ MouseLeave \/ Click \/ ResetView
    \/ \E term \in SearchTerms : Search(term)
    \/ \E filter \in FilterValues : FilterChange(filter)

C13_PanelMachine ==
    [][/\ isCollapsed \in BOOLEAN /\ isCollapsed' \in BOOLEAN
       /\ (~isCollapsed /\ isCollapsed') =>
             (TimerExpires /\ idle >= CollapseDelay)
       /\ (isCollapsed /\ ~isCollapsed') => PanelInteraction
       /\ PanelInteraction => collapseTimeout' = 0]_vars
====
